---- MODULE Spec2Model ----
(***************************************************************************)
(* black-lotus: the agent pipeline and the artifact extraction.            *)
(*                                                                         *)
(* Texts are TLA+ strings.  A TLA+ string literal cannot hold the          *)
(* backquote (U+0060), so the character "~" stands for it everywhere: the  *)
(* markdown fence of three backquotes is written "~~~".  No text of the    *)
(* model uses "~" for anything else.                                       *)
(***************************************************************************)
EXTENDS Integers, Sequences, FiniteSets, TLC

\* ------------------------------------------------------------------ bounds
\* longest input of the extractor, in lines
MaxLines == 6
\* by how many characters the longest generated text exceeds the context cap
OverCap == 2

\* ------------------------------------------------- Go's strings package
Min(S) == CHOOSE m \in S : \A o \in S : m <= o
Max(S) == CHOOSE m \in S : \A o \in S : m >= o

CharAt(s, i) == SubSeq(s, i, i)

\* the positions of the one-character string c in s
IndexSet(s, c) == {i \in 1..Len(s) : CharAt(s, i) = c}

HasPrefix(s, prefix) ==
    Len(s) >= Len(prefix) /\ SubSeq(s, 1, Len(prefix)) = prefix

TrimPrefix(s, prefix) ==
    IF HasPrefix(s, prefix) THEN SubSeq(s, Len(prefix) + 1, Len(s)) ELSE s

\* strings.Split(s, sep) for a one-character sep: always at least one piece
Split(s, sep) ==
    LET P == IndexSet(s, sep)
        n == Cardinality(P)
        Nth(k) == CHOOSE p \in P : Cardinality({q \in P : q < p}) = k - 1
        Cut(k) == IF k = 0 THEN 0 ELSE IF k = n + 1 THEN Len(s) + 1 ELSE Nth(k)
    IN  [k \in 1..(n + 1) |-> SubSeq(s, Cut(k - 1) + 1, Cut(k) - 1)]

\* strings.SplitN(s, sep, 2) for a one-character sep: one or two pieces
SplitN2(s, sep) ==
    LET P == IndexSet(s, sep)
    IN  IF P = {} THEN <<s>>
        ELSE <<SubSeq(s, 1, Min(P) - 1), SubSeq(s, Min(P) + 1, Len(s))>>

WhiteSpace == {" ", "\t", "\n", "\r", "\f"}

TrimSpace(s) ==
    LET K == {i \in 1..Len(s) : CharAt(s, i) \notin WhiteSpace}
    IN  IF K = {} THEN "" ELSE SubSeq(s, Min(K), Max(K))

RECURSIVE Join(_, _)
Join(elems, sep) ==
    IF Len(elems) = 0 THEN ""
    ELSE IF Len(elems) = 1 THEN elems[1]
    ELSE elems[1] \o sep \o Join(Tail(elems), sep)

\* ------------------------------------------------------- ParseArtifacts
\* "~~~" stands for the fence of three backquotes
Fence == "~~~"

ParseStart ==
    [inBlock |-> FALSE, lang |-> "", filename |-> "",
     blockLines |-> <<>>, artifacts |-> <<>>]

\* OpenBlock without "filename = \"\""
OpenBlockKeepsFilename(st, line) ==
    [st EXCEPT !.inBlock = TRUE,
               !.lang = TrimPrefix(line, Fence),
               !.blockLines = <<>>]

OpenBlock(st, line) ==
    [st EXCEPT !.inBlock = TRUE,
               !.lang = TrimPrefix(line, Fence),
               !.filename = "",
               !.blockLines = <<>>]

\* CloseBlock that lets an artifact replace an earlier one of the same name
CloseBlockMergesByName(st) ==
    LET art == [Filename |-> st.filename, Language |-> st.lang,
                Content  |-> Join(st.blockLines, "\n")]
        same == {i \in 1..Len(st.artifacts) :
                    art.Filename # "" /\ st.artifacts[i].Filename = art.Filename}
    IN  [st EXCEPT !.inBlock = FALSE,
                   !.artifacts = IF same = {} THEN Append(@, art)
                                 ELSE [@ EXCEPT ![Min(same)] = art]]

CloseBlock(st) ==
    [st EXCEPT !.inBlock = FALSE,
               !.artifacts = Append(@, [Filename |-> st.filename,
                                        Language |-> st.lang,
                                        Content  |-> Join(st.blockLines, "\n")])]

\* a hint test that also takes the SQL comment form
IsFilenameHintWithDashes(line) ==
    HasPrefix(line, "// file:") \/ HasPrefix(line, "# file:")
        \/ HasPrefix(line, "-- file:")

IsFilenameHint(line) ==
    HasPrefix(line, "// file:") \/ HasPrefix(line, "# file:")

\* BlockLine that strips the hint lines from the content
BlockLineDropsHint(st, line) ==
    LET parts == SplitN2(line, ":")
    IN  IF IsFilenameHint(line) /\ Len(parts) = 2
        THEN [st EXCEPT !.filename = TrimSpace(parts[2])]
        ELSE [st EXCEPT !.blockLines = Append(@, line)]

BlockLine(st, line) ==
    LET parts == SplitN2(line, ":")
        fn == IF IsFilenameHint(line) /\ Len(parts) = 2
              THEN TrimSpace(parts[2]) ELSE st.filename
    IN  [st EXCEPT !.filename = fn, !.blockLines = Append(@, line)]

\* ParseLine without "&& !inBlock": every fence-prefixed line opens a block
ParseLineReopens(st, line) ==
    IF HasPrefix(line, Fence) /\ (~st.inBlock \/ line # Fence)
        THEN OpenBlock(st, line)
    ELSE IF line = Fence /\ st.inBlock THEN CloseBlock(st)
    ELSE IF st.inBlock THEN BlockLine(st, line)
    ELSE st

ParseLine(st, line) ==
    IF HasPrefix(line, Fence) /\ ~st.inBlock THEN OpenBlock(st, line)
    ELSE IF line = Fence /\ st.inBlock THEN CloseBlock(st)
    ELSE IF st.inBlock THEN BlockLine(st, line)
    ELSE st

RECURSIVE ParseLoop(_, _, _)
ParseLoop(lines, i, st) ==
    IF i > Len(lines) THEN st
    ELSE ParseLoop(lines, i + 1, ParseLine(st, lines[i]))

\* the locals of a call that lets them be what the previous call left
ParseLocalsKeepLeft(left) == left

\* the declarations at the top of ParseArtifacts: every call starts from
\* fresh locals, whatever the previous call left in them
ParseLocals(left) == ParseStart

\* one call of ParseArtifacts made after a call that left its locals as
\* `left`: the locals at its return
ParseAfter(output, left) ==
    ParseLoop(Split(output, "\n"), 1, ParseLocals(left))

\* ParseArtifacts that emits the block still open when the input ends
ParseArtifactsFlushes(output) ==
    LET st == ParseLoop(Split(output, "\n"), 1, ParseStart)
    IN  IF st.inBlock THEN CloseBlock(st).artifacts ELSE st.artifacts

ParseArtifacts(output) ==
    ParseLoop(Split(output, "\n"), 1, ParseStart).artifacts

\* ------------------------------------------- the agents' fixed texts
\* (the source's backquotes are written "~", its typographic quotes and
\* apostrophes as their ASCII forms)
apiDesignResponsibilities ==
    "- Design clean, RESTful API contracts tailored to this "
    \o "service's domain\n"
    \o "\n"
    \o "- Define route structures and OpenAPI-style documentation\n"
    \o "- Specify request/response schemas with proper validation rules\n"
    \o "- Handle domain-specific edge cases and error scenarios\n"
    \o "- Follow REST best practices and correct HTTP semantics"

apiDesignOutputFormat ==
    "When generating code, always include:\n"
    \o "\n"
    \o "- Route definitions using Go's net/http or chi router\n"
    \o "- Request/Response structs with JSON tags and validation\n"
    \o "- Proper HTTP status codes and error response formats\n"
    \o "- Comments explaining design decisions\n"
    \o "\n"
    \o "Format code blocks as:\n"
    \o "~go\n"
    \o "// file: <filename>\n"
    \o "<code>\n"
    \o "~"

backendResponsibilities ==
    "- Implement service layer business logic for all domain "
    \o "operations\n"
    \o "\n"
    \o "- Design the database schema with proper indexing and "
    \o "constraints\n"
    \o "- Write repository pattern code for data access using pgx or "
    \o "sqlx\n"
    \o "- Handle concurrency: locking strategies, atomic updates, race "
    \o "conditions\n"
    \o "- Implement database migrations (up/down)\n"
    \o "- Apply domain-appropriate patterns (e.g. Saga, outbox, event "
    \o "sourcing)"

backendOutputFormat ==
    "When generating code, always include:\n"
    \o "\n"
    \o "- PostgreSQL schema (tables, indexes, constraints, foreign "
    \o "keys)\n"
    \o "- Repository interfaces and concrete implementations\n"
    \o "- Service structs with dependency injection\n"
    \o "- Concurrency-safe operations where relevant\n"
    \o "- Up/down migration SQL files\n"
    \o "\n"
    \o "Format Go code blocks as:\n"
    \o "~~~go\n"
    \o "// file: <filename>\n"
    \o "<code>\n"
    \o "~~~\n"
    \o "\n"
    \o "Format SQL blocks as:\n"
    \o "~sql\n"
    \o "-- file: <filename>\n"
    \o "<sql>\n"
    \o "~"

messagingResponsibilities ==
    "- Design domain event schemas appropriate for this service\n"
    \o "\n"
    \o "- Implement Kafka producers with the transactional outbox "
    \o "pattern\n"
    \o "- Implement Kafka consumers with idempotency and dead letter "
    \o "queue handling\n"
    \o "- Define which events this service publishes and which it "
    \o "consumes\n"
    \o "- Ensure at-least-once delivery with retry and backoff logic\n"
    \o "- Handle graceful shutdown of consumers"

messagingOutputFormat ==
    "When generating code, always include:\n"
    \o "\n"
    \o "- Domain event structs with versioning, event_id, "
    \o "correlation_id, and timestamp\n"
    \o "- Kafka producer with transactional outbox (events written to "
    \o "DB before publishing)\n"
    \o "- Kafka consumer group with idempotency tracking\n"
    \o "- Dead letter queue handling\n"
    \o "- Graceful shutdown\n"
    \o "\n"
    \o "Format code blocks as:\n"
    \o "~go\n"
    \o "// file: <filename>\n"
    \o "<code>\n"
    \o "~"

testingResponsibilities ==
    "- Write comprehensive unit tests using Go's testing package and "
    \o "testify\n"
    \o "\n"
    \o "- Design table-driven tests covering edge cases for all domain "
    \o "operations\n"
    \o "- Write integration tests using testcontainers-go for real "
    \o "dependencies\n"
    \o "- Implement JWT authentication middleware with role-based "
    \o "access control\n"
    \o "- Add rate limiting, request ID generation, and audit logging "
    \o "middleware\n"
    \o "- Identify and test security vulnerabilities specific to this "
    \o "service's domain"

testingOutputFormat ==
    "When generating code, always include:\n"
    \o "\n"
    \o "- Table-driven unit tests with mock repositories (using "
    \o "interfaces)\n"
    \o "- Integration tests with testcontainers (PostgreSQL, Kafka as "
    \o "needed)\n"
    \o "- Concurrency tests for any operations that modify shared state\n"
    \o "- JWT middleware (RS256), RBAC roles appropriate to this "
    \o "service\n"
    \o "- Rate limiter middleware (token bucket per IP/API key)\n"
    \o "- Audit logging middleware for all mutating operations\n"
    \o "- A Makefile with test targets and coverage reporting\n"
    \o "\n"
    \o "Format code blocks as:\n"
    \o "~go\n"
    \o "// file: <filename>\n"
    \o "<code>\n"
    \o "~"

apiDesignPromptHead ==
    "Design the REST API for the following microservice:\n"
    \o "\n"

apiDesignPromptTail ==
    "\n"
    \o "\n"
    \o "Please produce:\n"
    \o "\n"
    \o "1. A complete list of API endpoints (HTTP method, path, "
    \o "description) for all operations listed above\n"
    \o "1. Go structs for all request and response payloads with JSON "
    \o "tags\n"
    \o "1. Router setup code (chi or net/http)\n"
    \o "1. Standardized error response format\n"
    \o "1. OpenAPI-style godoc comments for each endpoint\n"
    \o "1. Any domain-specific validation rules or constraints"

backendPromptHead ==
    "Implement the backend service layer and database code for the "
    \o "following microservice:\n"
    \o "\n"

backendPromptTail ==
    "\n"
    \o "\n"
    \o "Please produce:\n"
    \o "\n"
    \o "1. PostgreSQL schema for all entities listed above (tables, "
    \o "indexes, constraints)\n"
    \o "1. Repository interfaces and implementations using pgx\n"
    \o "1. Service layer structs with all business operations "
    \o "implemented\n"
    \o "1. Database migration files (up + down)\n"
    \o "1. Any concurrency or consistency mechanisms needed for the "
    \o "operations above\n"
    \o "1. Dependency injection wiring (how repos plug into services)"

messagingPromptHead ==
    "Design and implement the messaging/eventing layer for the "
    \o "following microservice:\n"
    \o "\n"

messagingPromptTail ==
    "\n"
    \o "\n"
    \o "Please produce:\n"
    \o "\n"
    \o "1. Domain event structs this service will PUBLISH (derived from "
    \o "its operations and entities)\n"
    \o "1. Events this service will CONSUME from its integrations\n"
    \o "1. Kafka producer implementation with:\n"
    \o "- Transactional outbox pattern\n"
    \o "- Exponential backoff retry\n"
    \o "- JSON serialization with schema versioning\n"
    \o "1. Kafka consumer with:\n"
    \o "- Consumer group setup\n"
    \o "- Idempotency key tracking to prevent duplicate processing\n"
    \o "- Dead letter queue for poison messages\n"
    \o "1. Event handler functions for each consumed event type\n"
    \o "1. Topic naming conventions and configuration recommendations\n"
    \o "1. Graceful shutdown logic"

testingPromptHead ==
    "Write tests and implement security for the following "
    \o "microservice:\n"
    \o "\n"

testingPromptTail ==
    "\n"
    \o "\n"
    \o "Please produce:\n"
    \o "\n"
    \o "1. Unit tests for the service layer - one test file per major "
    \o "operation\n"
    \o "- Table-driven tests with success and failure cases\n"
    \o "- Mock repositories generated from interfaces\n"
    \o "- Concurrency tests for any operations that mutate shared state\n"
    \o "1. Integration tests using testcontainers-go\n"
    \o "1. Security middleware stack:\n"
    \o "- JWT validation (RS256) with roles appropriate to this service\n"
    \o "- Role-based access control per endpoint\n"
    \o "- Rate limiter (token bucket, configurable per role)\n"
    \o "- Request ID + audit logging middleware for all mutations\n"
    \o "1. Security-focused test cases:\n"
    \o "- Unauthorized access attempts\n"
    \o "- Input validation / injection attempts\n"
    \o "- Any domain-specific security concerns\n"
    \o "1. Makefile with: test, test-integration, coverage, lint targets"

\* --------------------------------------------------- ServiceDefinition
\* the descriptors a run is started with
Services ==
    { [Name |-> "inventory", Description |-> "Tracks stock levels.",
       Language |-> "Go",
       Entities |-> <<"Product", "Warehouse">>,
       Operations |-> <<"Reserve stock">>,
       Integrations |-> <<>>,
       ExtraRequirements |-> <<>>],
      [Name |-> "payments", Description |-> "Processes payments.",
       Language |-> "Go",
       Entities |-> <<>>,
       Operations |-> <<>>,
       Integrations |-> <<"PostgreSQL", "Order Service (Kafka)">>,
       ExtraRequirements |-> <<"All charges idempotent">>] }

RECURSIVE PromptItems(_)
PromptItems(items) ==
    IF Len(items) = 0 THEN ""
    ELSE "  - " \o Head(items) \o "\n" \o PromptItems(Tail(items))

\* a section that is written for an empty sequence too
PromptSectionKeepsEmpty(title, items) == title \o PromptItems(items) \o "\n"

PromptSection(title, items) ==
    IF Len(items) > 0 THEN title \o PromptItems(items) \o "\n" ELSE ""

Prompt(s) ==
    "Microservice Name: " \o s.Name \o "\n\n"
    \o "Description:\n" \o s.Description \o "\n\n"
    \o "Language: " \o s.Language \o "\n\n"
    \o PromptSection("Core Domain Entities:\n", s.Entities)
    \o PromptSection("Key Business Operations:\n", s.Operations)
    \o PromptSection("External Integrations:\n", s.Integrations)
    \o PromptSection("Additional Requirements:\n", s.ExtraRequirements)

\* the descriptor after Prompt returned: the pointer receiver lets Prompt
\* write to it, and Prompt assigns to none of its fields
PromptReceiver(s) == s

\* ------------------------------------------------------------ BaseAgent
buildSystemPrompt(role, svcName, language, responsibilities, outputFormat) ==
    "You are an expert " \o role \o " specializing in " \o svcName
    \o " microservices written in " \o language \o ".\n\n"
    \o "Service you are building: " \o svcName \o "\n\n"
    \o "Your responsibilities:\n" \o responsibilities \o "\n\n"
    \o outputFormat

\* the agents in the pipeline's order, as NewPipeline registers them
NumAgents == 4

AgentNames ==
    <<"API Design Agent", "Backend & Database Agent",
      "Messaging & Events Agent", "Testing & Security Agent">>

AgentResponsibilities ==
    <<apiDesignResponsibilities, backendResponsibilities,
      messagingResponsibilities, testingResponsibilities>>

AgentOutputFormats ==
    <<apiDesignOutputFormat, backendOutputFormat,
      messagingOutputFormat, testingOutputFormat>>

\* NewBaseAgentForService: the agent's name and its tailored system prompt
NewAgent(k, s) ==
    [agentName |-> AgentNames[k],
     systemPrompt |-> buildSystemPrompt(AgentNames[k], s.Name, s.Language,
                          AgentResponsibilities[k], AgentOutputFormats[k])]

\* a reply of the Messages API: an error, or content blocks
TextBlock(t) == [Type |-> "text", Text |-> t]

RECURSIVE ConcatText(_)
ConcatText(content) ==
    IF Len(content) = 0 THEN ""
    ELSE (IF Head(content).Type = "text" THEN Head(content).Text ELSE "")
         \o ConcatText(Tail(content))

\* Chat that drops the error of Messages.New
ChatIgnoresError(reply) ==
    [text |-> ConcatText(reply.content), err |-> <<>>]

\* Chat that returns the first content block only
ChatFirstBlock(reply) ==
    IF reply.err # <<>>
    THEN [text |-> "", err |-> <<"claude API error: " \o reply.err[1]>>]
    ELSE [text |-> ConcatText(SubSeq(reply.content, 1, 1)), err |-> <<>>]

\* BaseAgent.Chat after Messages.New has returned reply
Chat(reply) ==
    IF reply.err # <<>>
    THEN [text |-> "", err |-> <<"claude API error: " \o reply.err[1]>>]
    ELSE [text |-> ConcatText(reply.content), err |-> <<>>]

\* ------------------------------------------------------- the agents' Run
\* "if v, ok := agentContext[key]; ok { prompt += label + v }"
\* a section written whether or not the key is present
ContextSectionAlways(agentContext, key, label) ==
    IF key \in DOMAIN agentContext THEN label \o agentContext[key] ELSE label

ContextSection(agentContext, key, label) ==
    IF key \in DOMAIN agentContext THEN label \o agentContext[key] ELSE ""

APIDesignPrompt(s, agentContext) ==
    apiDesignPromptHead \o Prompt(s) \o apiDesignPromptTail
    \o ContextSection(agentContext, "project_context",
                      "\n\nAdditional Context:\n")

\* a Backend prompt that also reads the Messaging agent's output
BackendDBPromptReadsMessaging(s, agentContext) ==
    backendPromptHead \o Prompt(s) \o backendPromptTail
    \o ContextSection(agentContext, "api_design",
                      "\n\nAPI Design (implement these contracts):\n")
    \o ContextSection(agentContext, "messaging", "\n\nMessaging:\n")

BackendDBPrompt(s, agentContext) ==
    backendPromptHead \o Prompt(s) \o backendPromptTail
    \o ContextSection(agentContext, "api_design",
                      "\n\nAPI Design (implement these contracts):\n")

MessagingPrompt(s, agentContext) ==
    messagingPromptHead \o Prompt(s) \o messagingPromptTail
    \o ContextSection(agentContext, "backend_db",
         "\n\nDatabase/Service Context (outbox table should align with this schema):\n")

TestingSecurityPrompt(s, agentContext) ==
    testingPromptHead \o Prompt(s) \o testingPromptTail
    \o ContextSection(agentContext, "api_design",
         "\n\nAPI Design (write tests and middleware for these endpoints):\n")
    \o ContextSection(agentContext, "backend_db",
         "\n\nService/Repo Layer (mock these interfaces in tests):\n")

AgentPrompt(k, s, agentContext) ==
    CASE k = 1 -> APIDesignPrompt(s, agentContext)
      [] k = 2 -> BackendDBPrompt(s, agentContext)
      [] k = 3 -> MessagingPrompt(s, agentContext)
      [] k = 4 -> TestingSecurityPrompt(s, agentContext)

\* the request a Run hands to Chat: the system prompt and the messages
\* a request that sends the prompt twice
AgentRequestTwoMessages(k, s, agentContext) ==
    [system |-> NewAgent(k, s).systemPrompt,
     messages |-> <<[role |-> "user", text |-> AgentPrompt(k, s, agentContext)],
                    [role |-> "user", text |-> AgentPrompt(k, s, agentContext)]>>]

AgentRequest(k, s, agentContext) ==
    [system |-> NewAgent(k, s).systemPrompt,
     messages |-> <<[role |-> "user", text |-> AgentPrompt(k, s, agentContext)]>>]

\* a Run that stores a note in the map it was given
ContextAfterRunWritesKey(k, agentContext) ==
    [key \in DOMAIN agentContext \cup {"testing_security"} |->
        IF key = "testing_security" THEN "draft" ELSE agentContext[key]]

\* a Run that deletes the keys it has read from the map
ContextAfterRunDropsRead(k, agentContext) ==
    [key \in DOMAIN agentContext \ {"project_context", "api_design", "backend_db"}
        |-> agentContext[key]]

\* the agentContext map after a Run: Go maps are shared with the callee, and
\* no Run assigns to the map
ContextAfterRun(k, agentContext) == agentContext

\* strconv of a non-negative int, as fmt's %d prints it
RECURSIVE Itoa(_)
Itoa(n) ==
    IF n < 10 THEN CharAt("0123456789", n + 1)
    ELSE Itoa(n \div 10) \o CharAt("0123456789", (n % 10) + 1)

\* the default-naming loops; j is the 1-based position, the source's i+1
\* the API Design loop numbering from the index i instead of i+1
APIDesignFilenameZeroBased(art, j) ==
    IF art.Filename = "" /\ art.Language = "go"
    THEN "api_" \o Itoa(j - 1) \o ".go" ELSE art.Filename

APIDesignFilename(art, j) ==
    IF art.Filename = "" /\ art.Language = "go"
    THEN "api_" \o Itoa(j) \o ".go" ELSE art.Filename

\* the Backend loop without its sql case
BackendDBFilenameGoOnly(art, j) ==
    IF art.Filename = "" /\ art.Language = "go"
    THEN "service_" \o Itoa(j) \o ".go" ELSE art.Filename

BackendDBFilename(art, j) ==
    IF art.Filename = ""
    THEN CASE art.Language = "go" -> "service_" \o Itoa(j) \o ".go"
           [] art.Language = "sql" -> "migration_" \o Itoa(j) \o ".sql"
           [] OTHER -> art.Filename
    ELSE art.Filename

MessagingFilename(art, j) ==
    IF art.Filename = "" /\ art.Language = "go"
    THEN "messaging_" \o Itoa(j) \o ".go" ELSE art.Filename

TestingSecurityFilename(art, j) ==
    IF art.Filename = "" /\ art.Language = "go"
    THEN "test_" \o Itoa(j) \o ".go" ELSE art.Filename

DefaultFilename(k, art, j) ==
    CASE k = 1 -> APIDesignFilename(art, j)
      [] k = 2 -> BackendDBFilename(art, j)
      [] k = 3 -> MessagingFilename(art, j)
      [] k = 4 -> TestingSecurityFilename(art, j)

\* a naming loop that numbers every artifact 1
NameArtifactsAllFirst(k, artifacts) ==
    [j \in 1..Len(artifacts) |->
        [artifacts[j] EXCEPT !.Filename = DefaultFilename(k, artifacts[j], 1)]]

NameArtifacts(k, artifacts) ==
    [j \in 1..Len(artifacts) |->
        [artifacts[j] EXCEPT !.Filename = DefaultFilename(k, artifacts[j], j)]]

\* an AgentResult under the first agent's name
NewAgentResultFirstName(k, output) ==
    [AgentName |-> AgentNames[1],
     Output    |-> output,
     Artifacts |-> NameArtifacts(k, ParseArtifacts(output))]

\* the AgentResult a Run returns for the text Chat gave it
NewAgentResult(k, output) ==
    [AgentName |-> AgentNames[k],
     Output    |-> output,
     Artifacts |-> NameArtifacts(k, ParseArtifacts(output))]

\* a Run that returns an empty result when Chat fails
AgentRunSwallowsError(k, chat) ==
    [result |-> <<NewAgentResult(k, chat.text)>>, err |-> <<>>,
     steps |-> <<"ParseArtifacts", "naming">>]

\* a Run that hands Chat's error on as it is
AgentRunUnnamedError(k, chat) ==
    IF chat.err # <<>>
    THEN [result |-> <<>>, err |-> chat.err, steps |-> <<>>]
    ELSE [result |-> <<NewAgentResult(k, chat.text)>>, err |-> <<>>,
          steps |-> <<"ParseArtifacts", "naming">>]

\* the part of a Run after Chat returned: (result, error), nil as <<>>, and
\* the steps it went through on the way
AgentRun(k, chat) ==
    IF chat.err # <<>>
    THEN [result |-> <<>>,
          err |-> <<"[" \o AgentNames[k] \o "] failed: " \o chat.err[1]>>,
          steps |-> <<>>]
    ELSE [result |-> <<NewAgentResult(k, chat.text)>>, err |-> <<>>,
          steps |-> <<"ParseArtifacts", "naming">>]

\* ------------------------------------------- Pipeline (pipeline.go)
\* the cap on a context entry, in characters
MaxContextChars == 3000

\* the key each agent's output is stored under, by pipeline position
contextKeys == <<"api_design", "backend_db", "messaging", "testing_security">>

\* the context a run starts with
SeedContext(s) == [key \in {"project_context"} |-> Prompt(s)]

\* a trim that keeps the end of the output
TrimOutputKeepsTail(output) ==
    IF Len(output) > MaxContextChars
    THEN SubSeq(output, Len(output) - MaxContextChars + 1, Len(output))
    ELSE output

\* the first MaxContextChars characters of an output
TrimOutput(output) ==
    IF Len(output) > MaxContextChars
    THEN SubSeq(output, 1, MaxContextChars) ELSE output

\* the context with the k-th agent's output stored
StoreOutput(agentContext, k, output) ==
    [key \in DOMAIN agentContext \cup {contextKeys[k]} |->
        IF key = contextKeys[k] THEN TrimOutput(output) ELSE agentContext[key]]

\* the error Run returns when the k-th agent fails
PipelineError(k, agentErr) == [agent |-> AgentNames[k], cause |-> agentErr]

\* whether the loop is over once the k-th agent has succeeded
LastAgent(k) == k = NumAgents

\* a loop that starts an agent while a Chat is outstanding
LoopReadyWhileChatting(at) == at \in {"loop", "chat"}

\* whether the loop may construct and run its next agent
LoopReady(at) == at = "loop"

PipelineResult(s, agentResults) == [Service |-> s, Results |-> agentResults]

\* ---------------------------------------------- SaveArtifacts (pipeline.go)
\* strings.ReplaceAll(s, old, new) for a one-character old
RECURSIVE ReplaceAll(_, _, _)
ReplaceAll(s, old, new) ==
    IF Len(s) = 0 THEN ""
    ELSE (IF CharAt(s, 1) = old THEN new ELSE CharAt(s, 1))
         \o ReplaceAll(SubSeq(s, 2, Len(s)), old, new)

UpperCase == "ABCDEFGHIJKLMNOPQRSTUVWXYZ"
LowerCase == "abcdefghijklmnopqrstuvwxyz"

ToLowerChar(c) ==
    IF IndexSet(UpperCase, c) = {} THEN c
    ELSE CharAt(LowerCase, Min(IndexSet(UpperCase, c)))

RECURSIVE ToLower(_)
ToLower(s) ==
    IF Len(s) = 0 THEN ""
    ELSE ToLowerChar(CharAt(s, 1)) \o ToLower(SubSeq(s, 2, Len(s)))

\* sanitizeName without the replacement of "/"
sanitizeNameKeepsSlash(name) ==
    ToLower(ReplaceAll(ReplaceAll(name, " ", "*"), "&", "and"))

\* spaces to "*", "&" to "and", "/" to "*", then lowercased
sanitizeName(name) ==
    ToLower(ReplaceAll(ReplaceAll(ReplaceAll(name, " ", "*"), "&", "and"),
                       "/", "*"))

\* the root a run's files go under when no argument names another
\* extensionForLang with yml kept as its own extension
extensionForLangKeepsYml(lang) ==
    CASE lang = "go" -> ".go"
      [] lang = "sql" -> ".sql"
      [] lang = "yaml" -> ".yaml"
      [] lang = "yml" -> ".yml"
      [] lang = "json" -> ".json"
      [] OTHER -> ".txt"

\* the extension of the file written for an artifact of language lang
extensionForLang(lang) ==
    CASE lang = "go" -> ".go"
      [] lang = "sql" -> ".sql"
      [] lang \in {"yaml", "yml"} -> ".yaml"
      [] lang = "json" -> ".json"
      [] OTHER -> ".txt"

DefaultOutputDir == "./generated"

ServiceDir(outputDir, s) == outputDir \o "/" \o s.Name

AgentDir(outputDir, s, agentName) ==
    ServiceDir(outputDir, s) \o "/" \o sanitizeName(agentName)

\* the writes of one agent's directory: the log, then the artifacts in order
AgentWrites(dir, r) ==
    <<[path |-> dir \o "/output.md", content |-> r.Output]>>
    \o [j \in 1..Len(r.Artifacts) |->
          [path |-> dir \o "/" \o r.Artifacts[j].Filename,
           content |-> r.Artifacts[j].Content]]

RECURSIVE SummaryLines(_)
SummaryLines(agentResults) ==
    IF Len(agentResults) = 0 THEN ""
    ELSE LET r == Head(agentResults)
         IN  "## " \o r.AgentName \o " (" \o Itoa(Len(r.Artifacts)) \o ")\n"
             \o Join([j \in 1..Len(r.Artifacts) |->
                         "- " \o r.Artifacts[j].Filename], "\n")
             \o "\n" \o SummaryLines(Tail(agentResults))

\* the summary document: the descriptor, then every agent and its files
Summary(result) ==
    "# " \o result.Service.Name \o "\n\n" \o result.Service.Description
    \o "\n\n" \o SummaryLines(result.Results)

RECURSIVE AllAgentWrites(_, _, _)
AllAgentWrites(outputDir, s, agentResults) ==
    IF Len(agentResults) = 0 THEN <<>>
    ELSE AgentWrites(AgentDir(outputDir, s, Head(agentResults).AgentName),
                     Head(agentResults))
         \o AllAgentWrites(outputDir, s, Tail(agentResults))

\* every write of a save, in the order it is made
SaveWrites(result, outputDir) ==
    AllAgentWrites(outputDir, result.Service, result.Results)
    \o <<[path |-> ServiceDir(outputDir, result.Service) \o "/README.md",
          content |-> Summary(result)]>>

\* writes that leave a file that exists as it is
WriteFilesKeepsFirst(fs, ws, n) ==
    [q \in DOMAIN fs \cup {ws[i].path : i \in 1..n} |->
        IF q \in DOMAIN fs THEN fs[q]
        ELSE ws[Min({i \in 1..n : ws[i].path = q})].content]

\* the files after the first n writes of ws
RECURSIVE WriteFiles(_, _, _)
WriteFiles(fs, ws, n) ==
    IF n = 0 THEN fs
    ELSE LET before == WriteFiles(fs, ws, n - 1)
         IN  [q \in DOMAIN before \cup {ws[n].path} |->
                 IF q = ws[n].path THEN ws[n].content ELSE before[q]]

\* a SaveArtifacts that removes what it wrote when a write fails
SaveArtifactsRollsBack(fs, result, outputDir, failedWrite) ==
    LET ws == SaveWrites(result, outputDir)
    IN  IF failedWrite > Len(ws)
        THEN [files |-> WriteFiles(fs, ws, Len(ws)), err |-> <<>>]
        ELSE [files |-> fs,
              err |-> <<"write " \o ws[failedWrite].path \o ": failed">>]

\* SaveArtifacts when its failedWrite-th write fails (none does when
\* failedWrite exceeds the number of writes): the files and the error
SaveArtifacts(fs, result, outputDir, failedWrite) ==
    LET ws == SaveWrites(result, outputDir)
    IN  IF failedWrite > Len(ws)
        THEN [files |-> WriteFiles(fs, ws, Len(ws)), err |-> <<>>]
        ELSE [files |-> WriteFiles(fs, ws, failedWrite - 1),
              err |-> <<"write " \o ws[failedWrite].path \o ": failed">>]

\* ------------------------------------------------------------------ main
\* "if err != nil { log.Fatalf(...) }" after pipeline.Run: whether main goes on
RunSucceeded(err) == err = <<>>

\* ------------------------------------------------------------------ state
VARIABLES
    apiKey,        \* cfg.AnthropicAPIKey
    svc,           \* the ServiceDefinition main runs the pipeline for
    pc,            \* where main is: "main", "loop", "chat", "returned",
                   \* "done", "fatal" ("off" while only the extractor runs)
    idx,           \* Run's loop: the position of the current agent
    agentContext,  \* Run's agentContext map
    results,       \* Run's accumulated AgentResults
    runResult,     \* what Run returned: <<>> for nil, else <<PipelineResult>>
    runErr,        \* what Run returned: <<>> for nil, else <<error>>
    cancelled,     \* whether Run's ctx has been cancelled
    calls,         \* every Chat call so far: the agent, the context it was
                   \* given, whether ctx was already cancelled, the request,
                   \* and the reply once it has returned
    files,         \* the filesystem under the output directory: path -> text
    saveErr,       \* what SaveArtifacts returned
    plines,        \* the extractor on its own: the lines of its input,
    ptext,         \*   its input,
    ppc,           \*   whether it has run,
    partifacts,    \*   and what it returned
    hcalls,        \* repeated calls of the extractor: text and artifacts,
    hleft,         \*   and the locals the last call left
    nagent,        \* one Run on its own: the agent,
    nblocks,       \*   the blocks of the text Chat returned,
    npc,           \*   whether Run has returned,
    nresult,       \*   and the result it returned
    etag,          \* extensionForLang on its own: the language tag
    eext,          \*   and, once called, the extension returned
    ragent,        \* one Run on any context: the agent,
    rcontext,      \*   the agentContext it is given,
    rcall,         \*   and, once it returned, what it sent and returned
    sname,         \* sanitizeName on its own: the agent name
    sdir,          \*   and, once called, the directory name returned
    vresult,       \* SaveArtifacts on its own: the result to save,
    vfail,         \*   which of its writes the filesystem refuses,
    vsaved,        \*   and, once called, the files and the error returned
    dfirst,        \* Prompt on its own: the descriptor as constructed,
    dsvc,          \*   the descriptor as the calls have left it,
    dtexts         \*   and the texts the calls returned

pipelineVars ==
    <<apiKey, svc, pc, idx, agentContext, results, runResult, runErr,
      cancelled, calls, files, saveErr>>
parseVars == <<plines, ptext, ppc, partifacts>>
pureVars == <<hcalls, hleft>>
nameVars == <<nagent, nblocks, npc, nresult>>
extVars == <<etag, eext>>
runVars == <<ragent, rcontext, rcall>>
sanVars == <<sname, sdir>>
saveVars == <<vresult, vfail, vsaved>>
descVars == <<dfirst, dsvc, dtexts>>
sideVars ==
    <<pureVars, nameVars, extVars, runVars, sanVars, saveVars, descVars>>
vars == <<pipelineVars, parseVars, sideVars>>

NoFiles == [q \in {} |-> ""]

\* ------------------------------------------- what the Messages API returns
RECURSIVE Repeat(_, _)
Repeat(s, n) ==
    IF n = 0 THEN ""
    ELSE IF n % 2 = 1 THEN s \o Repeat(s, n - 1)
    ELSE LET half == Repeat(s, n \div 2) IN half \o half

OutHinted == "Router:\n~~~go\n// file: a.go\nx\n~~~"
OutPlainHead == "~~~go\nx\n~~~\n"
OutPlainRest == "~~~sql\n-- file: m.sql\ny\n~~~\n~~~yaml\nk: v\n~~~"

\* a text of n characters that starts with a block
LongText(n) == OutHinted \o "\n" \o Repeat("y", n - Len(OutHinted) - 1)

Contents ==
    { <<TextBlock(OutHinted)>>,
      <<TextBlock(OutPlainHead), [Type |-> "tool_use", Text |-> ""],
        TextBlock(OutPlainRest)>>,
      <<TextBlock(LongText(MaxContextChars))>>,
      <<TextBlock(LongText(MaxContextChars + OverCap))>> }

\* Messages.New honours its ctx: once ctx is cancelled it returns ctx's error
Replies(isCancelled) ==
    IF isCancelled THEN {[err |-> <<"context canceled">>, content |-> <<>>]}
    ELSE {[err |-> <<"overloaded">>, content |-> <<>>]}
         \cup {[err |-> <<>>, content |-> c] : c \in Contents}

\* ---------------------------------------------------------------- actions
ParseIdle == plines = <<>> /\ ptext = "" /\ ppc = "off" /\ partifacts = <<>>
PureIdle == hcalls = <<>> /\ hleft = ParseStart
NameIdle == nagent = 0 /\ nblocks = <<>> /\ npc = "off" /\ nresult = <<>>
ExtIdle == etag = "" /\ eext = <<"off">>
RunIdle == ragent = 0 /\ rcontext = NoFiles /\ rcall = <<>>
SanIdle == sname = "" /\ sdir = <<"off">>
SaveIdle == vresult = <<>> /\ vfail = 0 /\ vsaved = <<>>
DescIdle == dfirst = <<>> /\ dsvc = <<>> /\ dtexts = <<>>
SideIdle ==
    /\ PureIdle /\ NameIdle /\ ExtIdle /\ RunIdle
    /\ SanIdle /\ SaveIdle /\ DescIdle

Init ==
    /\ apiKey \in {"", "sk-key"}
    /\ svc \in Services
    /\ pc = "main"
    /\ idx = 0
    /\ agentContext = NoFiles
    /\ results = <<>>
    /\ runResult = <<>>
    /\ runErr = <<>>
    /\ cancelled = FALSE
    /\ calls = <<>>
    /\ files = NoFiles
    /\ saveErr = <<>>
    /\ ParseIdle
    /\ SideIdle

\* main up to pipeline.Run, and Run up to its loop
MainStart ==
    /\ pc = "main"
    /\ IF apiKey = ""
       THEN /\ pc' = "fatal"
            /\ UNCHANGED <<idx, agentContext>>
       ELSE /\ pc' = "loop"
            /\ idx' = 1
            /\ agentContext' = SeedContext(svc)
    /\ UNCHANGED <<apiKey, svc, results, runResult, runErr, cancelled, calls,
                   files, saveErr, parseVars, sideVars>>

\* one iteration up to the agent's Chat: the agent is constructed, its Run
\* builds the prompt and calls Messages.New
AgentCall ==
    /\ LoopReady(pc)
    /\ calls' = Append(calls, [agent |-> idx,
                               seen |-> agentContext,
                               ctxDone |-> cancelled,
                               request |-> AgentRequest(idx, svc, agentContext),
                               reply |-> <<>>,
                               ran |-> <<>>])
    /\ pc' = "chat"
    /\ UNCHANGED <<apiKey, svc, idx, agentContext, results, runResult, runErr,
                   cancelled, files, saveErr, parseVars, sideVars>>

\* a loop that runs an agent again when its Run failed, up to twice
\* NumAgents calls
AgentReturnRetries ==
    /\ pc = "chat"
    /\ \E reply \in Replies(cancelled) :
         LET k == calls[Len(calls)].agent
             ran == AgentRun(k, Chat(reply))
             ctx == ContextAfterRun(k, agentContext)
         IN  /\ calls' = [calls EXCEPT ![Len(calls)].reply = <<reply>>,
                                       ![Len(calls)].ran = <<ran>>]
             /\ IF ran.err # <<>> /\ Len(calls) < 2 * NumAgents
                THEN /\ pc' = "loop"
                     /\ agentContext' = ctx
                     /\ UNCHANGED <<idx, results, runResult, runErr>>
                ELSE IF ran.err # <<>>
                THEN /\ runErr' = <<PipelineError(k, ran.err[1])>>
                     /\ runResult' = <<>>
                     /\ pc' = "returned"
                     /\ agentContext' = ctx
                     /\ UNCHANGED <<idx, results>>
                ELSE /\ agentContext' = StoreOutput(ctx, k, ran.result[1].Output)
                     /\ results' = Append(results, ran.result[1])
                     /\ IF LastAgent(k)
                        THEN /\ runResult' = <<PipelineResult(svc, results')>>
                             /\ pc' = "returned"
                             /\ UNCHANGED idx
                        ELSE /\ idx' = k + 1
                             /\ pc' = "loop"
                             /\ UNCHANGED runResult
                     /\ UNCHANGED runErr
    /\ UNCHANGED <<apiKey, svc, cancelled, files, saveErr, parseVars, sideVars>>

\* Messages.New returns: the rest of the agent's Run, then the rest of the
\* iteration in Pipeline.Run
AgentReturn ==
    /\ pc = "chat"
    /\ \E reply \in Replies(cancelled) :
         LET k == calls[Len(calls)].agent
             ran == AgentRun(k, Chat(reply))
             ctx == ContextAfterRun(k, agentContext)
         IN  /\ calls' = [calls EXCEPT ![Len(calls)].reply = <<reply>>,
                                       ![Len(calls)].ran = <<ran>>]
             /\ IF ran.err # <<>>
                THEN /\ runErr' = <<PipelineError(k, ran.err[1])>>
                     /\ runResult' = <<>>
                     /\ pc' = "returned"
                     /\ agentContext' = ctx
                     /\ UNCHANGED <<idx, results>>
                ELSE /\ agentContext' = StoreOutput(ctx, k, ran.result[1].Output)
                     /\ results' = Append(results, ran.result[1])
                     /\ IF LastAgent(k)
                        THEN /\ runResult' = <<PipelineResult(svc, results')>>
                             /\ pc' = "returned"
                             /\ UNCHANGED idx
                        ELSE /\ idx' = k + 1
                             /\ pc' = "loop"
                             /\ UNCHANGED runResult
                     /\ UNCHANGED runErr
    /\ UNCHANGED <<apiKey, svc, cancelled, files, saveErr, parseVars, sideVars>>

\* the holder of Run's ctx cancels it
Cancel ==
    /\ pc \in {"loop", "chat"}
    /\ ~cancelled
    /\ cancelled' = TRUE
    /\ UNCHANGED <<apiKey, svc, pc, idx, agentContext, results, runResult,
                   runErr, calls, files, saveErr, parseVars, sideVars>>

\* a main that logs a failed run and saves what the run had accumulated
MainAfterRunKeepsGoing ==
    /\ pc = "returned"
    /\ \E failedWrite \in 1..2 :
         LET result == IF runErr = <<>> THEN runResult[1]
                       ELSE PipelineResult(svc, results)
             saved == SaveArtifacts(files, result, DefaultOutputDir,
                          IF failedWrite = 1 THEN 1
                          ELSE Len(SaveWrites(result, DefaultOutputDir)) + 1)
         IN  /\ files' = saved.files
             /\ saveErr' = saved.err
             /\ pc' = IF saved.err # <<>> THEN "fatal" ELSE "done"
    /\ UNCHANGED <<apiKey, svc, idx, agentContext, results, runResult, runErr,
                   cancelled, calls, parseVars, sideVars>>

\* main after pipeline.Run has returned
MainAfterRun ==
    /\ pc = "returned"
    /\ IF ~RunSucceeded(runErr)
       THEN /\ pc' = "fatal"
            /\ UNCHANGED <<files, saveErr>>
       ELSE \E failedWrite \in
                 1..(Len(SaveWrites(runResult[1], DefaultOutputDir)) + 1) :
              LET saved == SaveArtifacts(files, runResult[1],
                                         DefaultOutputDir, failedWrite)
              IN  /\ files' = saved.files
                  /\ saveErr' = saved.err
                  /\ pc' = IF saved.err # <<>> THEN "fatal" ELSE "done"
    /\ UNCHANGED <<apiKey, svc, idx, agentContext, results, runResult, runErr,
                   cancelled, calls, parseVars, sideVars>>

Next == MainStart \/ AgentCall \/ AgentReturn \/ Cancel \/ MainAfterRun

Spec == Init /\ [][Next]_vars

\* the program runs on while it can: the loop starts its next agent, and
\* every Messages.New call returns
LiveSpec == Spec /\ WF_vars(AgentCall) /\ WF_vars(AgentReturn)

\* ---------------------------------------------- the extractor on its own
\* the lines the bounded inputs of the extractor are made of
ParseLineKinds ==
    {"~~~go", "~~~", "// file: a.go", "# file:  b:c ", "-- file: m.sql", "x", ""}

\* a text of n lines has n - 1 newlines, so every text has at least one line
ParseInputs == UNION {[1..n -> ParseLineKinds] : n \in 1..MaxLines}

PipelineOff ==
    /\ apiKey = ""
    /\ svc = CHOOSE s \in Services : s.Name = "inventory"
    /\ pc = "off"
    /\ idx = 0
    /\ agentContext = NoFiles
    /\ results = <<>>
    /\ runResult = <<>>
    /\ runErr = <<>>
    /\ cancelled = FALSE
    /\ calls = <<>>
    /\ files = NoFiles
    /\ saveErr = <<>>

ParseInit ==
    /\ plines \in ParseInputs
    /\ ptext = Join(plines, "\n")
    /\ ppc = "ready"
    /\ partifacts = <<>>
    /\ PipelineOff
    /\ SideIdle

ParseCall ==
    /\ ppc = "ready"
    /\ partifacts' = ParseArtifacts(ptext)
    /\ ppc' = "parsed"
    /\ UNCHANGED <<plines, ptext, pipelineVars, sideVars>>

ParseNext == ParseCall

ParseSpec == ParseInit /\ [][ParseNext]_vars


\* ------------------------------------------ the extractor called repeatedly
MaxCalls == 3

\* texts with a closed block, a block left open, no block, two blocks, and
\* the empty text
PureTexts ==
    { "~~~go\nx\n~~~",
      "~~~go\n// file: a.go\nx",
      "x",
      "~~~\n# file: b\n~~~\n~~~sql\ny\n~~~",
      "" }

PureInit ==
    /\ PureIdle
    /\ NameIdle
    /\ ExtIdle
    /\ ParseIdle
    /\ RunIdle
    /\ SanIdle
    /\ SaveIdle
    /\ DescIdle
    /\ PipelineOff

PureCall ==
    /\ Len(hcalls) < MaxCalls
    /\ \E t \in PureTexts :
         LET st == ParseAfter(t, hleft)
         IN  /\ hleft' = st
             /\ hcalls' = Append(hcalls, [text |-> t, artifacts |-> st.artifacts])
    /\ UNCHANGED <<pipelineVars, parseVars, descVars, saveVars, sanVars,
                   runVars, nameVars, extVars>>

PureNext == PureCall

PureSpec == PureInit /\ [][PureNext]_vars

\* ------------------------------------------------- one agent's Run on its own
MaxArtifacts == 3

\* blocks Chat's text is made of: a hinted go block, hintless go, sql, yaml
\* and untagged blocks, a sql block with the hint in a SQL comment, and a go
\* block whose hint has the form of a default name
NameBlocks ==
    { "~~~go\n// file: a.go\nx\n~~~",
      "~~~sql\n-- file: m.sql\ny\n~~~",
      "~~~go\n// file: service_2.go\nw\n~~~",
      "~~~go\nx\n~~~",
      "~~~sql\ny\n~~~",
      "~~~yaml\nk: v\n~~~",
      "~~~\nz\n~~~" }

NameInputs == UNION {[1..n -> NameBlocks] : n \in 1..MaxArtifacts}

\* the text Chat returned: prose, then the blocks
NameText(blocks) == "Here is the code:\n" \o Join(blocks, "\n")

NameInit ==
    /\ nagent \in 1..NumAgents
    /\ nblocks \in NameInputs
    /\ npc = "ready"
    /\ nresult = <<>>
    /\ PureIdle
    /\ ExtIdle
    /\ ParseIdle
    /\ RunIdle
    /\ SanIdle
    /\ SaveIdle
    /\ DescIdle
    /\ PipelineOff

\* Run from the return of a successful Chat on
NameCall ==
    /\ npc = "ready"
    /\ nresult' = AgentRun(nagent, [text |-> NameText(nblocks), err |-> <<>>]).result
    /\ npc' = "returned"
    /\ UNCHANGED <<nagent, nblocks, pipelineVars, parseVars, descVars,
                   saveVars, sanVars, runVars, pureVars, extVars>>

NameNext == NameCall

NameSpec == NameInit /\ [][NameNext]_vars

\* ------------------------------------------------ extensionForLang on its own
MaxTagLen == 2

TagLetters == {"g", "o", "s", "q", "l", "y", "m"}

RECURSIVE TagsOfLen(_)
TagsOfLen(n) ==
    IF n = 0 THEN {""}
    ELSE {t \o c : t \in TagsOfLen(n - 1), c \in TagLetters}

\* the tags of the mapping, the tags of up to MaxTagLen letters (the empty
\* tag among them) and tags that differ from a mapped tag by case or length
ExtTags ==
    {"go", "sql", "yaml", "yml", "json", "Go", "golang", "js"}
        \cup UNION {TagsOfLen(n) : n \in 0..MaxTagLen}

ExtInit ==
    /\ etag \in ExtTags
    /\ eext = <<>>
    /\ PureIdle
    /\ NameIdle
    /\ ParseIdle
    /\ RunIdle
    /\ SanIdle
    /\ SaveIdle
    /\ DescIdle
    /\ PipelineOff

ExtCall ==
    /\ eext = <<>>
    /\ eext' = <<extensionForLang(etag)>>
    /\ UNCHANGED <<etag, pipelineVars, parseVars, descVars, saveVars, sanVars,
                   runVars, pureVars, nameVars>>

ExtNext == ExtCall

ExtSpec == ExtInit /\ [][ExtNext]_vars

\* ------------------------------------------- one agent's Run on any context
RunKeys == {"project_context"} \cup {contextKeys[j] : j \in 1..NumAgents}

\* what a context may hold under a key: nothing or a short text
RunValues(key) == {"", "text of " \o key}

\* every context over every subset of the keys, the empty context included
RunContexts ==
    UNION {{f \in [S -> UNION {RunValues(key) : key \in S}] :
               \A key \in S : f[key] \in RunValues(key)} : S \in SUBSET RunKeys}

RunReplies ==
    {[err |-> <<"overloaded">>, content |-> <<>>],
     [err |-> <<>>, content |-> <<TextBlock(OutHinted)>>]}

RunInit ==
    /\ ragent \in 1..NumAgents
    /\ rcontext \in RunContexts
    /\ rcall = <<>>
    /\ PureIdle
    /\ NameIdle
    /\ ExtIdle
    /\ ParseIdle
    /\ SanIdle
    /\ SaveIdle
    /\ DescIdle
    /\ PipelineOff

\* a whole Run: the request it builds, Messages.New's reply, what Run returns
\* and the map the caller holds afterwards
RunCall ==
    /\ ragent # 0
    /\ rcall = <<>>
    /\ \E reply \in RunReplies :
         rcall' = <<[request |-> AgentRequest(ragent, svc, rcontext),
                     reply   |-> reply,
                     ran     |-> AgentRun(ragent, Chat(reply)),
                     after   |-> ContextAfterRun(ragent, rcontext)]>>
    /\ UNCHANGED <<ragent, rcontext, pipelineVars, parseVars, descVars,
                   saveVars, sanVars, pureVars, nameVars, extVars>>

RunNext == RunCall

RunSpec == RunInit /\ [][RunNext]_vars

\* ---------------------------------------------------- sanitizeName on its own
MaxNameLen == 3

NameLetters == {" ", "&", "/", "A", "b", "*"}

RECURSIVE NamesOfLen(_)
NamesOfLen(n) ==
    IF n = 0 THEN {""}
    ELSE {t \o c : t \in NamesOfLen(n - 1), c \in NameLetters}

\* the names of the four agents and every name of up to MaxNameLen letters
SanNames ==
    {AgentNames[k] : k \in 1..NumAgents}
        \cup UNION {NamesOfLen(n) : n \in 0..MaxNameLen}

SanInit ==
    /\ sname \in SanNames
    /\ sdir = <<>>
    /\ RunIdle
    /\ PureIdle
    /\ NameIdle
    /\ ExtIdle
    /\ ParseIdle
    /\ SaveIdle
    /\ DescIdle
    /\ PipelineOff

SanCall ==
    /\ sdir = <<>>
    /\ sdir' = <<sanitizeName(sname)>>
    /\ UNCHANGED <<sname, pipelineVars, parseVars, descVars, saveVars, runVars,
                   pureVars, nameVars, extVars>>

SanNext == SanCall

SanSpec == SanInit /\ [][SanNext]_vars

\* --------------------------------------------------- SaveArtifacts on its own
MaxSaved == 2

\* artifacts to save: two of the same filename, one of another
SavedArtifacts ==
    { [Filename |-> "a.go", Language |-> "go", Content |-> "x"],
      [Filename |-> "a.go", Language |-> "go", Content |-> "y"],
      [Filename |-> "b.go", Language |-> "go", Content |-> "x"] }

SavedLists == UNION {[1..n -> SavedArtifacts] : n \in 0..MaxSaved}

\* the results of a run of the first agent, or of the first two, the first
\* then with one artifact
SavedResults ==
    {<<[AgentName |-> AgentNames[1], Output |-> "one", Artifacts |-> a1]>> :
        a1 \in SavedLists}
    \cup {<<[AgentName |-> AgentNames[1], Output |-> "one", Artifacts |-> a1],
            [AgentName |-> AgentNames[2], Output |-> "two", Artifacts |-> a2]>> :
            a1 \in [1..1 -> SavedArtifacts], a2 \in SavedLists}

SaveInit ==
    /\ SanIdle
    /\ RunIdle
    /\ PureIdle
    /\ NameIdle
    /\ ExtIdle
    /\ ParseIdle
    /\ DescIdle
    /\ PipelineOff
    /\ vresult \in {PipelineResult(svc, rs) : rs \in SavedResults}
    /\ vfail \in 1..(Len(SaveWrites(vresult, DefaultOutputDir)) + 1)
    /\ vsaved = <<>>

SaveCall ==
    /\ vfail # 0
    /\ vsaved = <<>>
    /\ vsaved' = <<SaveArtifacts(NoFiles, vresult, DefaultOutputDir, vfail)>>
    /\ UNCHANGED <<vresult, vfail, pipelineVars, parseVars, descVars, sanVars,
                   runVars, pureVars, nameVars, extVars>>

SaveNext == SaveCall

SaveSpec == SaveInit /\ [][SaveNext]_vars

\* ---------------------------------------------------------- Prompt on its own
MaxItems == 2
MaxPrompts == 2

ItemLists(items) == UNION {[1..n -> items] : n \in 0..MaxItems}

\* descriptors with every mix of empty and non-empty sequences
Descriptors ==
    [Name : {"inventory"}, Description : {"Tracks stock levels."},
     Language : {"Go"},
     Entities : ItemLists({"Product", "Warehouse"}),
     Operations : ItemLists({"Reserve stock", "Release stock"}),
     Integrations : {<<>>, <<"PostgreSQL">>},
     ExtraRequirements : {<<>>, <<"All charges idempotent">>}]

DescInit ==
    /\ dfirst \in Descriptors
    /\ dsvc = dfirst
    /\ dtexts = <<>>
    /\ SaveIdle
    /\ SanIdle
    /\ RunIdle
    /\ PureIdle
    /\ NameIdle
    /\ ExtIdle
    /\ ParseIdle
    /\ PipelineOff

\* one call of Prompt on the descriptor
PromptCall ==
    /\ dsvc # <<>>
    /\ Len(dtexts) < MaxPrompts
    /\ dtexts' = Append(dtexts, Prompt(dsvc))
    /\ dsvc' = PromptReceiver(dsvc)
    /\ UNCHANGED <<dfirst, pipelineVars, parseVars, saveVars, sanVars, runVars,
                   pureVars, nameVars, extVars>>

DescNext == PromptCall

DescSpec == DescInit /\ [][DescNext]_vars

\* ------------------------------------------------------------ properties
\* the first n characters of t, or all of t when it is shorter
Prefix(t, n) == SubSeq(t, 1, Min({Len(t), n}))

\* the text the Generation Client returned for a call that has returned
Generated(c) == ConcatText(c.reply[1].content)

Returned(c) == c.reply # <<>>
Failed(c) == Returned(c) /\ c.reply[1].err # <<>>

EarlierKeys(k) == {contextKeys[j] : j \in 1..(k - 1)}

\* C1: the context handed to the k-th agent holds exactly the seed entry
\* "project_context" (the descriptor's rendered prompt) and, under their
\* keys, the trimmed outputs of the agents 1..k-1; it holds no entry under
\* the key of agent k or of a later agent.
C1_ContextSeenByAgent ==
    \A n \in 1..Len(calls) :
        LET c == calls[n]
        IN  /\ c.agent = n
            /\ DOMAIN c.seen = {"project_context"} \cup EarlierKeys(n)
            /\ c.seen["project_context"] = Prompt(svc)
            /\ \A j \in 1..(n - 1) :
                 c.seen[contextKeys[j]]
                     = Prefix(Generated(calls[j]), MaxContextChars)

\* the last agent is called after an earlier agent's output was cut
C1_Witness ==
    /\ Len(calls) = NumAgents
    /\ \E j \in 1..(NumAgents - 1) :
         /\ Len(Generated(calls[j])) > MaxContextChars
         /\ Len(calls[NumAgents].seen[contextKeys[j]]) = MaxContextChars

\* C2: the value stored under an agent's key is the prefix of the agent's
\* raw output of length min(len, 3000): a longer output is stored as exactly
\* its first 3000 characters, and no stored agent value exceeds 3000.
C2_StoredValueIsPrefix ==
    \A j \in 1..Len(results) :
        /\ contextKeys[j] \in DOMAIN agentContext
        /\ LET raw == results[j].Output
               stored == agentContext[contextKeys[j]]
           IN  /\ Len(stored) <= MaxContextChars
               /\ Len(stored) = Min({Len(raw), MaxContextChars})
               /\ stored = SubSeq(raw, 1, Len(stored))
               /\ Len(raw) > MaxContextChars => Len(stored) = MaxContextChars

\* a raw output longer than the cap has been stored
C2_Witness ==
    \E j \in 1..Len(results) :
        /\ Len(results[j].Output) = MaxContextChars + OverCap
        /\ contextKeys[j] \in DOMAIN agentContext
        /\ Len(agentContext[contextKeys[j]]) = MaxContextChars

\* C3: when the call of agent j fails, Run returns an error and no result,
\* and no agent after j is constructed or invoked.
C3_AbortOnFailure ==
    \A n \in 1..Len(calls) :
        Failed(calls[n]) =>
            /\ Len(calls) = n
            /\ pc \in {"returned", "fatal"}
            /\ runErr # <<>>
            /\ runErr[1].agent = AgentNames[n]
            /\ runResult = <<>>

\* the second agent failed after the first had produced a result
C3_Witness ==
    /\ Len(calls) = 2
    /\ Failed(calls[2])
    /\ Len(results) = 1
    /\ pc = "returned"

\* C4: a result returned by Run holds exactly one AgentResult per
\* configured agent, in the configured order.
C4_ResultIsComplete ==
    runResult # <<>> =>
        /\ runErr = <<>>
        /\ Len(runResult[1].Results) = NumAgents
        /\ \A k \in 1..NumAgents :
             /\ runResult[1].Results[k].AgentName = AgentNames[k]
             /\ runResult[1].Results[k].Output = Generated(calls[k])

C4_Witness ==
    /\ pc = "returned"
    /\ runResult # <<>>
    /\ Len(runResult[1].Results) = NumAgents

Outstanding == {n \in 1..Len(calls) : ~Returned(calls[n])}

\* C5: at most one Chat call is outstanding at any time, and the call of
\* agent i+1 is issued only after agent i has returned successfully and its
\* trimmed output is in the context.
C5_OneCallAtATime ==
    /\ Cardinality(Outstanding) <= 1
    /\ \A n \in 2..Len(calls) :
         /\ Returned(calls[n - 1])
         /\ ~Failed(calls[n - 1])
         /\ contextKeys[n - 1] \in DOMAIN calls[n].seen
         /\ calls[n].seen[contextKeys[n - 1]]
                = Prefix(Generated(calls[n - 1]), MaxContextChars)

\* the second agent's call is outstanding
C5_Witness == Len(calls) = 2 /\ Outstanding = {2} /\ pc = "chat"

\* C6: when ctx is cancelled while a Chat call is outstanding, the call
\* fails, and Run returns an error and no result without calling a
\* further agent.
C6_CancelAborts ==
    [][ /\ (cancelled /\ pc = "chat") =>
              /\ pc' = "returned"
              /\ Failed(calls'[Len(calls)])
              /\ runErr' # <<>>
              /\ runResult' = <<>>
              /\ Len(calls') = Len(calls)
        /\ (cancelled /\ pc \in {"returned", "fatal", "done"}) =>
              calls' = calls ]_vars

\* a call issued before the cancellation failed with ctx's error, and the
\* run returned with agents left to run
C6_Witness ==
    /\ cancelled
    /\ pc = "returned"
    /\ Len(calls) = 2
    /\ ~calls[2].ctxDone
    /\ calls[2].reply = <<[err |-> <<"context canceled">>, content |-> <<>>]>>
    /\ runErr # <<>>

\* C7: after a failed run nothing is saved: main calls SaveArtifacts only
\* when Run returned without error.
C7_NoSaveAfterFailure ==
    /\ (runErr # <<>> \/ runResult = <<>>) => (files = NoFiles /\ saveErr = <<>>)
    /\ pc = "done" => (runErr = <<>> /\ runResult # <<>>)

\* main has exited after a run that failed with results accumulated
C7_Witness ==
    /\ pc = "fatal"
    /\ runErr # <<>>
    /\ Len(results) = 2
    /\ files = NoFiles

LogPath(k) == AgentDir(DefaultOutputDir, svc, AgentNames[k]) \o "/output.md"

RECURSIVE ClosedBlocks(_, _)
ClosedBlocks(lines, from) ==
    LET opens == {i \in from..Len(lines) : HasPrefix(lines[i], Fence)}
    IN  IF opens = {} THEN <<>>
        ELSE LET o == Min(opens)
                 closes == {i \in (o + 1)..Len(lines) : lines[i] = Fence}
             IN  IF closes = {} THEN <<>>
                 ELSE <<[open |-> o, close |-> Min(closes)]>>
                      \o ClosedBlocks(lines, Min(closes) + 1)

PBlocks == ClosedBlocks(plines, 1)

\* C9: for every closed block ParseArtifacts emits an Artifact whose
\* Language is the rest of the opening line after the fence and whose
\* Content is the lines strictly between the opening and the closing line,
\* joined by newlines, blank and hint lines included.
C9_LanguageAndContent ==
    ppc = "parsed" =>
        \A b \in 1..Len(PBlocks) :
            LET o == PBlocks[b].open
                c == PBlocks[b].close
            IN  /\ b <= Len(partifacts)
                /\ partifacts[b].Language = SubSeq(plines[o], 4, Len(plines[o]))
                /\ partifacts[b].Content
                       = Join(SubSeq(plines, o + 1, c - 1), "\n")

\* a block with a hint line, a blank line and a code line
C9_Witness ==
    /\ ppc = "parsed"
    /\ plines = <<"~~~go", "// file: a.go", "", "x", "~~~">>
    /\ partifacts = <<[Filename |-> "a.go", Language |-> "go",
                       Content |-> "// file: a.go\n\nx"]>>

HintLines(o, c) ==
    {i \in (o + 1)..(c - 1) :
        HasPrefix(plines[i], "// file:") \/ HasPrefix(plines[i], "# file:")}

AfterFirstColon(line) ==
    SubSeq(line, Min(IndexSet(line, ":")) + 1, Len(line))

\* C10: an Artifact's Filename is the trimmed text after the first colon of
\* the last hint line inside its own block, and empty when the block has no
\* hint line; hints of earlier blocks or outside blocks do not reach it.
C10_FilenameFromOwnBlock ==
    ppc = "parsed" =>
        \A b \in 1..Len(PBlocks) :
            LET H == HintLines(PBlocks[b].open, PBlocks[b].close)
            IN  /\ b <= Len(partifacts)
                /\ partifacts[b].Filename
                       = IF H = {} THEN ""
                         ELSE TrimSpace(AfterFirstColon(plines[Max(H)]))

\* a hinted block followed by a block without hint
C10_Witness ==
    /\ ppc = "parsed"
    /\ Len(partifacts) = 2
    /\ partifacts[1].Filename = "a.go"
    /\ partifacts[2].Filename = ""

\* the line that closes the last closed block, 0 when no block is closed
LastClose == IF Len(PBlocks) = 0 THEN 0 ELSE PBlocks[Len(PBlocks)].close

\* the fence lines after the last closed block: the first opens a block that
\* the input never closes
UnclosedOpens ==
    {i \in (LastClose + 1)..Len(plines) : HasPrefix(plines[i], Fence)}

\* C11: when the input ends inside a block, no Artifact is emitted for that
\* block and its lines are dropped; the artifacts of the blocks closed
\* before it are those of the input cut after the last closing fence.
C11_UnclosedBlockDropped ==
    (ppc = "parsed" /\ UnclosedOpens # {}) =>
        /\ Len(partifacts) = Len(PBlocks)
        /\ partifacts = ParseArtifacts(Join(SubSeq(plines, 1, LastClose), "\n"))

\* a closed block followed by a block with a hint that is never closed
C11_Witness ==
    /\ ppc = "parsed"
    /\ plines = <<"~~~go", "x", "~~~", "~~~go", "// file: a.go", "x">>
    /\ partifacts = <<[Filename |-> "", Language |-> "go", Content |-> "x"]>>

\* C12: inside a block, a line that starts with the fence but is not the
\* bare fence neither closes the block nor opens another: it is a line of
\* the block's content, and the block's Language stays that of its opening
\* line.
C12_FenceLineInsideBlock ==
    ppc = "parsed" =>
        \A b \in 1..Len(PBlocks) :
            LET o == PBlocks[b].open
                c == PBlocks[b].close
                inner == {i \in (o + 1)..(c - 1) : HasPrefix(plines[i], Fence)}
            IN  inner # {} =>
                    /\ Len(partifacts) = Len(PBlocks)
                    /\ partifacts[b].Language = TrimPrefix(plines[o], Fence)
                    /\ Split(partifacts[b].Content, "\n")
                           = SubSeq(plines, o + 1, c - 1)

\* a block opened by a bare fence that holds a tagged fence line
C12_Witness ==
    /\ ppc = "parsed"
    /\ plines = <<"~~~", "~~~go", "x", "~~~">>
    /\ partifacts = <<[Filename |-> "", Language |-> "",
                       Content |-> "~~~go\nx"]>>

\* C13: ParseArtifacts returns one Artifact per closed block, in the order
\* of the blocks, each the Artifact of its block alone; blocks with the same
\* filename hint both appear.
C13_OneArtifactPerBlock ==
    ppc = "parsed" =>
        /\ Len(partifacts) = Len(PBlocks)
        /\ \A b \in 1..Len(PBlocks) :
             ParseArtifacts(Join(SubSeq(plines, PBlocks[b].open,
                                        PBlocks[b].close), "\n"))
                 = <<partifacts[b]>>

\* two blocks with the same hint
C13_Witness ==
    /\ ppc = "parsed"
    /\ Len(partifacts) = 2
    /\ partifacts[1].Filename = "a.go"
    /\ partifacts[2].Filename = "a.go"
    /\ partifacts[1].Language # partifacts[2].Language

\* C14: two calls of ParseArtifacts on the same text return the same
\* artifacts, whatever calls on other texts were made before or between
\* them.
C14_SameTextSameArtifacts ==
    \A i, j \in 1..Len(hcalls) :
        hcalls[i].text = hcalls[j].text =>
            hcalls[i].artifacts = hcalls[j].artifacts

\* the same text parsed before and after a text that ends inside a block
C14_Witness ==
    /\ Len(hcalls) = 3
    /\ hcalls[1].text = hcalls[3].text
    /\ hcalls[1].artifacts # <<>>
    /\ hcalls[2].text # hcalls[1].text
    /\ hleft.inBlock = FALSE
    /\ hcalls[2].artifacts = <<>>
    /\ hcalls[2].text = "~~~go\n// file: a.go\nx"

\* the artifacts of the result the Run returned
NResult == nresult[1].Artifacts

\* block j of the text carries no filename hint and is tagged tag
Hintless(j) ==
    Split(nblocks[j], "\n")[2] \notin {"// file: a.go", "// file: service_2.go"}

\* the filename a hinted block names
HintOf(j) ==
    IF Split(nblocks[j], "\n")[2] = "// file: a.go" THEN "a.go" ELSE "service_2.go"
Tagged(j, tag) == Split(nblocks[j], "\n")[1] = Fence \o tag

\* the default filenames CLAUDE.md lists for agent k
NameFamilies(k) ==
    CASE k = 1 -> {"api"}
      [] k = 2 -> {"service", "migration"}
      [] k = 3 -> {"messaging"}
      [] k = 4 -> {"test"}

\* name is a default name of agent k with number n
NumberedName(k, name, n) ==
    \E fam \in NameFamilies(k), ext \in {".go", ".sql"} :
        name = fam \o "_" \o Itoa(n) \o ext

\* C15: in one result, two artifacts extracted with an empty filename and
\* language go carry distinct default names, and the later one carries the
\* larger number.
C15_DistinctIncreasingNames ==
    npc = "returned" =>
        \A i, j \in 1..Len(nblocks) :
            (i < j /\ Hintless(i) /\ Tagged(i, "go")
                   /\ Hintless(j) /\ Tagged(j, "go")) =>
                /\ NResult[i].Filename # NResult[j].Filename
                /\ \E a, b \in 1..Len(nblocks) :
                     /\ a < b
                     /\ NumberedName(nagent, NResult[i].Filename, a)
                     /\ NumberedName(nagent, NResult[j].Filename, b)

\* the Backend agent names two hintless go blocks service_1.go, service_2.go
C15_Witness ==
    /\ npc = "returned"
    /\ nagent = 2
    /\ Len(nblocks) = 2
    /\ Hintless(1) /\ Tagged(1, "go") /\ Hintless(2) /\ Tagged(2, "go")
    /\ NResult[1].Filename = "service_1.go"
    /\ NResult[2].Filename = "service_2.go"

\* the number of hintless blocks among the first j
HintlessRank(j) == Cardinality({i \in 1..j : Hintless(i)})

\* as first stated, C16 numbers a default name by the artifact's position
\* among the hintless artifacts only
C16_Original ==
    npc = "returned" =>
        \A j \in 1..Len(nblocks) :
            (Hintless(j) /\ NResult[j].Filename # "") =>
                NumberedName(nagent, NResult[j].Filename, HintlessRank(j))

\* C16: the number n in a default filename is the artifact's 1-based
\* position among all the artifacts extracted from the stage's output,
\* hinted artifacts counted, for every stage and every mix of hinted and
\* hintless artifacts.
C16_NumberIsPositionAmongAll ==
    npc = "returned" =>
        \A j \in 1..Len(nblocks) :
            (Hintless(j) /\ NResult[j].Filename # "") =>
                NumberedName(nagent, NResult[j].Filename, j)

\* a hintless go block after a hinted one is numbered 2
C16_Witness ==
    /\ npc = "returned"
    /\ nagent = 1
    /\ Len(nblocks) = 2
    /\ ~Hintless(1)
    /\ Hintless(2)
    /\ NResult[1].Filename = "a.go"
    /\ NResult[2].Filename = "api_2.go"

BlockTag(j) == TrimPrefix(Split(nblocks[j], "\n")[1], Fence)

HasSuffix(s, suffix) ==
    /\ Len(s) >= Len(suffix)
    /\ SubSeq(s, Len(s) - Len(suffix) + 1, Len(s)) = suffix

\* as first stated, C17 gives every artifact of a result a non-empty
\* filename, a hintless one a default name with the extension the mapping
\* gives its language tag
C17_Original ==
    npc = "returned" =>
        \A j \in 1..Len(nblocks) :
            /\ NResult[j].Filename # ""
            /\ Hintless(j) =>
                 HasSuffix(NResult[j].Filename, extensionForLang(BlockTag(j)))

\* C17: after a successful Run, an artifact extracted with a filename keeps
\* it; one extracted without is given a default name only when its language
\* is go (extension .go) or, for the Backend agent, sql (extension .sql);
\* every other hintless artifact keeps its empty filename.
C17_OnlyGoAndSqlNamed ==
    npc = "returned" =>
        \A j \in 1..Len(nblocks) :
            LET name == NResult[j].Filename
            IN  IF ~Hintless(j) THEN name = HintOf(j)
                ELSE IF Tagged(j, "go") THEN name # "" /\ HasSuffix(name, ".go")
                ELSE IF nagent = 2 /\ Tagged(j, "sql")
                    THEN name # "" /\ HasSuffix(name, ".sql")
                ELSE name = ""

\* the Backend agent names a hintless sql block and leaves a yaml one unnamed
C17_Witness ==
    /\ npc = "returned"
    /\ nagent = 2
    /\ Len(nblocks) = 2
    /\ Hintless(1) /\ Tagged(1, "sql")
    /\ Hintless(2) /\ Tagged(2, "yaml")
    /\ NResult[1].Filename = "migration_1.sql"
    /\ NResult[2].Filename = ""

\* C18: the mapping from language tag to extension answers for every tag:
\* go gives .go, sql gives .sql, yaml and yml both give .yaml, json gives
\* .json, and every other tag, the empty tag included, gives .txt.
C18_ExtensionMapping ==
    (eext # <<>> /\ eext # <<"off">>) =>
        /\ Len(eext) = 1
        /\ etag = "go" => eext[1] = ".go"
        /\ etag = "sql" => eext[1] = ".sql"
        /\ etag \in {"yaml", "yml"} => eext[1] = ".yaml"
        /\ etag = "json" => eext[1] = ".json"
        /\ etag \notin {"go", "sql", "yaml", "yml", "json"} => eext[1] = ".txt"

\* the tag yml has been mapped
C18_Witness == etag = "yml" /\ eext = <<".yaml">>

\* C19: when the Generation Client call of a Run fails, the Run returns no
\* result and an error that names the agent and wraps the client's error,
\* and it goes through neither ParseArtifacts nor the naming loop.
C19_FailedCallGivesNamedError ==
    \A n \in 1..Len(calls) :
        Failed(calls[n]) =>
            LET ran == calls[n].ran[1]
            IN  /\ ran.result = <<>>
                /\ ran.err = <<"[" \o AgentNames[calls[n].agent]
                                 \o "] failed: claude API error: "
                                 \o calls[n].reply[1].err[1]>>
                /\ ran.steps = <<>>

\* the Backend agent's call failed after the API Design agent's succeeded
C19_Witness ==
    /\ Len(calls) = 2
    /\ Failed(calls[2])
    /\ ~Failed(calls[1])
    /\ calls[1].ran[1].steps = <<"ParseArtifacts", "naming">>
    /\ calls[2].ran[1].err
         = <<"[Backend & Database Agent] failed: claude API error: overloaded">>

\* C20: every Run issues one Generation Client call, whose messages are the
\* rendered prompt as a single user message, whether the call fails or not;
\* no agent is called again after it returned, so a failed call is the last
\* and a successful run has made exactly NumAgents calls.
C20_OneCallPerRun ==
    /\ \A n \in 1..Len(calls) :
         LET c == calls[n]
         IN  /\ c.agent = n
             /\ Len(c.request.messages) = 1
             /\ c.request.messages[1].role = "user"
             /\ c.request.messages[1].text = AgentPrompt(c.agent, svc, c.seen)
             /\ Failed(c) => n = Len(calls)
             /\ (c.ran # <<>>) <=> Returned(c)
    /\ runResult # <<>> => Len(calls) = NumAgents
    /\ runErr # <<>> => Len(calls) <= NumAgents /\ Failed(calls[Len(calls)])

\* a successful run: four calls, each returned once
C20_Witness ==
    /\ runResult # <<>>
    /\ Len(calls) = 4
    /\ \A n \in 1..4 : Returned(calls[n]) /\ ~Failed(calls[n])

\* sub occurs in s
Contains(s, sub) ==
    \E i \in 1..(Len(s) - Len(sub) + 1) : SubSeq(s, i, i + Len(sub) - 1) = sub

\* the labelled sections of the four prompts: the agent, the key it is read
\* from and the label that introduces it
PromptSections ==
    { [agent |-> 1, key |-> "project_context",
       label |-> "\n\nAdditional Context:\n"],
      [agent |-> 2, key |-> "api_design",
       label |-> "\n\nAPI Design (implement these contracts):\n"],
      [agent |-> 3, key |-> "backend_db",
       label |-> "\n\nDatabase/Service Context (outbox table should align with this schema):\n"],
      [agent |-> 4, key |-> "api_design",
       label |-> "\n\nAPI Design (write tests and middleware for these endpoints):\n"],
      [agent |-> 4, key |-> "backend_db",
       label |-> "\n\nService/Repo Layer (mock these interfaces in tests):\n"] }

RPrompt == rcall[1].request.messages[1].text

\* C21: whatever subset of the keys a Run's context holds, the empty one
\* included, the Run fails only when the Generation Client fails, and its
\* prompt holds the labelled section of a key, with the key's text, exactly
\* when the agent reads that key and the context holds it.
C21_AbsentKeysTolerated ==
    rcall # <<>> =>
        /\ rcall[1].ran.err # <<>> <=> rcall[1].reply.err # <<>>
        /\ rcall[1].ran.result = <<>> <=> rcall[1].reply.err # <<>>
        /\ \A sec \in PromptSections :
             /\ Contains(RPrompt, sec.label)
                  <=> (sec.agent = ragent /\ sec.key \in DOMAIN rcontext)
             /\ (sec.agent = ragent /\ sec.key \in DOMAIN rcontext)
                  => Contains(RPrompt, sec.label \o rcontext[sec.key])

\* the Testing & Security agent succeeded on a context that holds backend_db
\* but not api_design
C21_Witness ==
    /\ rcall # <<>>
    /\ ragent = 4
    /\ DOMAIN rcontext = {"backend_db", "messaging"}
    /\ rcontext["backend_db"] # ""
    /\ rcall[1].ran.err = <<>>

\* C26: the context mapping after a Run returned, with a result or with an
\* error, is the mapping the Run was given: no entry added, removed or
\* changed, for each of the four agents.
C26_RunLeavesContext ==
    rcall # <<>> =>
        /\ DOMAIN rcall[1].after = DOMAIN rcontext
        /\ \A key \in DOMAIN rcontext : rcall[1].after[key] = rcontext[key]

\* a failed Run and a context that holds every key
C26_Witness ==
    /\ rcall # <<>>
    /\ rcall[1].ran.err # <<>>
    /\ DOMAIN rcontext = RunKeys
    /\ \A key \in RunKeys : rcontext[key] # ""
    /\ rcall[1].after = rcontext

\* the keys CLAUDE.md lists as read at each pipeline position
ReadKeys(k) ==
    CASE k = 1 -> {"project_context"}
      [] k = 2 -> {"api_design"}
      [] k = 3 -> {"backend_db"}
      [] k = 4 -> {"api_design", "backend_db"}

\* the context cut down to the keys in keys
Restrict(f, keys) == [key \in DOMAIN f \cap keys |-> f[key]]

\* C27: the keys an agent reads are the seed key or keys written by
\* strictly earlier agents, never its own or a later agent's: the prompt of
\* API Design depends on project_context only, Backend's on api_design,
\* Messaging's on backend_db, Testing & Security's on api_design and
\* backend_db, and it does depend on each of these.
C27_ReadsOnlyEarlierKeys ==
    /\ \A k \in 1..NumAgents :
         ReadKeys(k) \subseteq {"project_context"} \cup EarlierKeys(k)
    /\ rcall # <<>> =>
         /\ RPrompt = AgentPrompt(ragent, svc, Restrict(rcontext, ReadKeys(ragent)))
         /\ \A key \in ReadKeys(ragent) \cap DOMAIN rcontext :
              RPrompt # AgentPrompt(ragent, svc, Restrict(rcontext, ReadKeys(ragent) \ {key}))

\* the Backend agent ran on a context that holds its own key and later keys
C27_Witness ==
    /\ rcall # <<>>
    /\ ragent = 2
    /\ DOMAIN rcontext = {"api_design", "backend_db", "messaging", "testing_security"}
    /\ \A key \in DOMAIN rcontext : rcontext[key] # ""

\* the separator CLAUDE.md and the specification print in directory names
Separator == "*"

\* what one character of an agent name becomes in the directory name
SanChar(c) ==
    CASE c = " " -> Separator
      [] c = "&" -> "and"
      [] c = "/" -> Separator
      [] OTHER -> ToLowerChar(c)

\* C22: the directory name of an agent is its name with every space
\* replaced by the separator, every "&" by "and", every "/" by the
\* separator, and lowercased; it holds no space, "&", "/" or uppercase
\* letter; "Backend & Database Agent" gives backend, and, database, agent
\* joined by the separator.
C22_SanitizedName ==
    (sdir # <<>> /\ sdir # <<"off">>) =>
        /\ sdir[1] = Join([i \in 1..Len(sname) |-> SanChar(CharAt(sname, i))], "")
        /\ \A i \in 1..Len(sdir[1]) :
             /\ CharAt(sdir[1], i) \notin {" ", "&", "/"}
             /\ IndexSet(UpperCase, CharAt(sdir[1], i)) = {}
        /\ sname = "Backend & Database Agent" =>
             sdir[1] = "backend" \o Separator \o "and" \o Separator
                       \o "database" \o Separator \o "agent"

\* the Backend agent's name, with spaces, an ampersand and uppercase letters
C22_Witness ==
    sname = "Backend & Database Agent" /\ sdir = <<"backend*and*database*agent">>

\* the directory Save writes the n-th agent result of vresult into
VDir(n) == AgentDir(DefaultOutputDir, vresult.Service, vresult.Results[n].AgentName)

\* the artifacts of the n-th agent result
VArtifacts(n) == vresult.Results[n].Artifacts

\* the last artifact of the n-th agent result with the filename of its j-th
VLast(n, j) ==
    LET same == {i \in 1..Len(VArtifacts(n)) :
                    VArtifacts(n)[i].Filename = VArtifacts(n)[j].Filename}
    IN  VArtifacts(n)[Max(same)]

\* every path a completed Save of vresult writes
VPaths ==
    {ServiceDir(DefaultOutputDir, vresult.Service) \o "/README.md"}
    \cup {VDir(n) \o "/output.md" : n \in 1..Len(vresult.Results)}
    \cup UNION {{VDir(n) \o "/" \o VArtifacts(n)[j].Filename :
                    j \in 1..Len(VArtifacts(n))} : n \in 1..Len(vresult.Results)}

\* C23: after a Save in which no write failed, the file named by an
\* artifact in its agent's directory holds the content of the last artifact
\* of that agent with that filename; artifacts of the same filename neither
\* make Save fail nor make it write under another name.
C23_LastWriteWins ==
    (vsaved # <<>> /\ vfail > Len(SaveWrites(vresult, DefaultOutputDir))) =>
        /\ vsaved[1].err = <<>>
        /\ DOMAIN vsaved[1].files = VPaths
        /\ \A n \in 1..Len(vresult.Results) :
             \A j \in 1..Len(VArtifacts(n)) :
                vsaved[1].files[VDir(n) \o "/" \o VArtifacts(n)[j].Filename]
                    = VLast(n, j).Content

\* an agent with two artifacts named a.go of different content has been saved
C23_Witness ==
    /\ vsaved # <<>>
    /\ vsaved[1].err = <<>>
    /\ Len(vresult.Results) = 2
    /\ Len(VArtifacts(2)) = 2
    /\ VArtifacts(2)[1].Filename = "a.go" /\ VArtifacts(2)[1].Content = "x"
    /\ VArtifacts(2)[2].Filename = "a.go" /\ VArtifacts(2)[2].Content = "y"
    /\ vsaved[1].files["./generated/inventory/backend*and*database*agent/a.go"] = "y"

\* the writes of a Save of vresult, in order
VWrites == SaveWrites(vresult, DefaultOutputDir)

\* C24: when a write fails, Save returns an error for that write, the
\* files on disk are the files of the writes made before it, each with the
\* content last written to it, and no file of a later write exists.
C24_FailedWriteAborts ==
    (vsaved # <<>> /\ vfail <= Len(VWrites)) =>
        /\ vsaved[1].err # <<>>
        /\ Contains(vsaved[1].err[1], VWrites[vfail].path)
        /\ DOMAIN vsaved[1].files = {VWrites[i].path : i \in 1..(vfail - 1)}
        /\ \A i \in 1..(vfail - 1) :
             LET later == {h \in i..(vfail - 1) : VWrites[h].path = VWrites[i].path}
             IN  vsaved[1].files[VWrites[i].path] = VWrites[Max(later)].content

\* the first write into the second agent's directory failed after the first
\* agent's files were written
C24_Witness ==
    /\ vsaved # <<>>
    /\ vsaved[1].err # <<>>
    /\ Len(vresult.Results) = 2
    /\ Len(VArtifacts(1)) = 1
    /\ vfail = 3
    /\ DOMAIN vsaved[1].files
         = {"./generated/inventory/api*design*agent/output.md",
            "./generated/inventory/api*design*agent/" \o VArtifacts(1)[1].Filename}

\* the sections of a rendered descriptor, in order: the title and the field
DescSections ==
    << [title |-> "Core Domain Entities:\n", field |-> "Entities"],
       [title |-> "Key Business Operations:\n", field |-> "Operations"],
       [title |-> "External Integrations:\n", field |-> "Integrations"],
       [title |-> "Additional Requirements:\n", field |-> "ExtraRequirements"] >>

\* where sub first occurs in s; 0 when it does not occur
FirstIndex(s, sub) ==
    LET at == {i \in 1..(Len(s) - Len(sub) + 1) :
                  SubSeq(s, i, i + Len(sub) - 1) = sub}
    IN  IF at = {} THEN 0 ELSE Min(at)

\* the items as the text lists them: one "  - item" line each, in order
ItemLinesOf(items) == Join([i \in 1..Len(items) |-> "  - " \o items[i] \o "\n"], "")

\* C25: calls of Prompt on one descriptor return the same text and leave
\* the descriptor as it was; the text holds, for each non-empty sequence,
\* its title followed by its items in their stored order, the sections in
\* the order Entities, Operations, Integrations, ExtraRequirements, and no
\* title for an empty sequence.
C25_PromptDeterministic ==
    /\ dsvc = dfirst
    /\ \A i, j \in 1..Len(dtexts) : dtexts[i] = dtexts[j]
    /\ \A i \in 1..Len(dtexts) :
         /\ \A n \in 1..Len(DescSections) :
              LET sec == DescSections[n]
                  items == dfirst[sec.field]
              IN  IF items = <<>> THEN ~Contains(dtexts[i], sec.title)
                  ELSE Contains(dtexts[i],
                                "\n" \o sec.title \o ItemLinesOf(items) \o "\n")
         /\ \A n, h \in 1..Len(DescSections) :
              (n < h /\ dfirst[DescSections[n].field] # <<>>
                     /\ dfirst[DescSections[h].field] # <<>>) =>
                 FirstIndex(dtexts[i], DescSections[n].title)
                     < FirstIndex(dtexts[i], DescSections[h].title)

\* two calls on a descriptor with two entities, no operation and one
\* integration
C25_Witness ==
    /\ Len(dtexts) = 2
    /\ dfirst.Entities = <<"Warehouse", "Product">>
    /\ dfirst.Operations = <<>>
    /\ dfirst.Integrations # <<>>
    /\ dfirst.ExtraRequirements = <<>>
    /\ dtexts[2] = "Microservice Name: inventory\n\nDescription:\nTracks stock levels.\n\nLanguage: Go\n\nCore Domain Entities:\n  - Warehouse\n  - Product\n\nExternal Integrations:\n  - PostgreSQL\n\n"

RunEnded == runResult # <<>> \/ runErr # <<>>

\* C28: provided every Generation Client call returns, a Run that has
\* started ends; at every moment it has made at most NumAgents calls and has
\* called no agent twice; it ends either with a result, every agent having
\* succeeded, or with an error, its last call being the only failed one.
C28_RunTerminates ==
    /\ (pc \in {"loop", "chat"}) ~> RunEnded
    /\ [](/\ Len(calls) <= NumAgents
          /\ \A i, j \in 1..Len(calls) : calls[i].agent = calls[j].agent => i = j)
    /\ [](RunEnded =>
            /\ pc \notin {"loop", "chat"}
            /\ \/ /\ runResult # <<>> /\ runErr = <<>>
                  /\ Len(calls) = NumAgents
                  /\ \A n \in 1..Len(calls) : Returned(calls[n]) /\ ~Failed(calls[n])
               \/ /\ runErr # <<>> /\ runResult = <<>>
                  /\ Failed(calls[Len(calls)])
                  /\ \A n \in 1..(Len(calls) - 1) : ~Failed(calls[n]))

\* a run that ended with an error at its third agent
C28_Witness ==
    /\ RunEnded
    /\ runErr # <<>>
    /\ Len(calls) = 3
    /\ Len(results) = 2
    /\ ~cancelled

\* block j carries its filename in a SQL comment
DashHinted(j) == Split(nblocks[j], "\n")[2] = "-- file: m.sql"

\* C29: a line beginning with "-- file:", the form the Backend agent's
\* system prompt prescribes for SQL blocks, sets no filename: an extracted
\* artifact has a filename exactly when its block holds a "// file:" or
\* "# file:" line; the "-- file:" line stays in the content, and the block
\* is named migration_<n>.sql by the Backend agent's naming loop and left
\* without a name by the other agents.
C29_DashHintIgnored ==
    /\ Contains(backendOutputFormat, "sql\n-- file: <filename>")
    /\ npc = "returned" =>
         LET extracted == ParseArtifacts(NameText(nblocks))
         IN  \A j \in 1..Len(nblocks) :
            /\ (extracted[j].Filename # "")
                 <=> (\/ HasPrefix(Split(nblocks[j], "\n")[2], "// file:")
                      \/ HasPrefix(Split(nblocks[j], "\n")[2], "# file:"))
            /\ DashHinted(j) =>
                 /\ NResult[j].Content = "-- file: m.sql\ny"
                 /\ NResult[j].Filename # "m.sql"
                 /\ NResult[j].Filename
                      = IF nagent = 2 THEN "migration_" \o Itoa(j) \o ".sql" ELSE ""

\* the Backend agent named a block that follows one hinted in a SQL comment
C29_Witness ==
    /\ npc = "returned"
    /\ nagent = 2
    /\ Len(nblocks) = 2
    /\ ~Hintless(1)
    /\ DashHinted(2)
    /\ NResult[2].Filename = "migration_2.sql"

\* C30: the naming loop leaves a filename that came from a hint as it is,
\* and a filename it assigns differs from the filename of every other
\* artifact of the result, hinted or named by the loop.
C30_DefaultNamesUnique ==
    npc = "returned" =>
        \A j \in 1..Len(nblocks) :
            /\ ~Hintless(j) => NResult[j].Filename = HintOf(j)
            /\ (Hintless(j) /\ NResult[j].Filename # "") =>
                 \A i \in 1..Len(nblocks) :
                    i # j => NResult[i].Filename # NResult[j].Filename

====
